---- MODULE Spec2Model ----
(***************************************************************************)
(* The shared text store of alexsirait/textide: the collection endpoint    *)
(* src/pages/api/clipboard.js and the single-record endpoint               *)
(* src/pages/api/clipboard/[id].js, both working on one JSON file.         *)
(*                                                                         *)
(* A request is a process.  Its steps are cut at the awaits of the code    *)
(* that touch the file: a step reads the file and runs the synchronous     *)
(* body of the handler on what was read, a later step writes the file and  *)
(* responds.  The body changes nothing but the request's own copy, so it   *)
(* commutes with every step of another request; the clock does not advance *)
(* between the read and the body.  The single-record handler has the read  *)
(* as its only await, so it is one step.                                   *)
(***************************************************************************)
EXTENDS Integers, Sequences, FiniteSets, TLC

\* ------------------------------------------------------------------ bounds
\* The clock advances MaxTicks times, TickMs each; MaxRequests requests are
\* received in a behaviour.
MaxTicks == 1
MaxRequests == 2

\* ----------------------------------------------------------- program constants
\* 30 * 24 * 60 * 60 * 1000 ms.  The clock of the model counts seconds (the
\* value in milliseconds is beyond the 32 bit integers of TLC); every
\* time of the model is a whole number of seconds.
THIRTY_DAYS_MS == 30 * 24 * 60 * 60

\* The clock's step: half the retention window, so that a record is seen at
\* the age of 15 days (live) and of exactly THIRTY_DAYS_MS (expired).
TickMs == THIRTY_DAYS_MS \div 2

\* generateShortId draws 6 characters of a 62 character alphabet.  The model
\* keeps the draw and the comparison of whole identifiers and shrinks the
\* identifier space to the one-character identifiers over two characters.
chars == <<"a", "b">>

\* The slots of the requests in flight.  A request takes the lowest free
\* slot; the slot of an answered request is released when the next request
\* arrives.
Procs == {1, 2}

\* Request headers: x-forwarded-for / remoteAddress, and user-agent.
Ips == {"ip1", "ip2"}
Agents == {"ua"}

\* Characters of a text; " " is white space.
Str(s) == [type |-> "string", val |-> s]
Undefined == [type |-> "undefined", val |-> <<>>]
ValidPostText == Str(<<" ", "x", " ">>)
ValidPutText == Str(<<"y", " ">>)
PostTexts == {Undefined, Str(<<>>), Str(<<" ">>), ValidPostText}
PutTexts == {Undefined, Str(<<" ">>), ValidPutText}
\* body.editable as the JSON token sent; "undefined" is the field left out,
\* which the destructuring default turns into false.
EditableInputs == {"undefined", "true"}
\* body.id / query.id: "" is the id left out (falsy).
IdInputs == {"", "a", "b"}
ActionInputs == {"like", "other"}

\* ------------------------------------------------------------- pure helpers
\* String.prototype.trim on a sequence of characters.
RECURSIVE TrimStart(_)
TrimStart(s) == IF s # <<>> /\ Head(s) = " " THEN TrimStart(Tail(s)) ELSE s

RECURSIVE TrimEnd(_)
TrimEnd(s) ==
  IF s # <<>> /\ s[Len(s)] = " " THEN TrimEnd(SubSeq(s, 1, Len(s) - 1)) ELSE s

trim(s) == TrimEnd(TrimStart(s))

\* The test of the text without the trim.
InvalidTextNoTrim(text) ==
  \/ text.type = "undefined"
  \/ text.val = <<>>
  \/ text.type # "string"

\* !text || typeof text !== 'string' || !text.trim()
InvalidText(text) ==
  \/ text.type = "undefined"
  \/ text.val = <<>>
  \/ text.type # "string"
  \/ trim(text.val) = <<>>

\* Buffer.from(`${ip}-${userAgent}`).toString('base64'): one token for each
\* concatenated string; base64 is injective, the token is kept as the pair.
getVisitorId(r) == <<r.ip, "-", r.ua>>

Visitors == {getVisitorId([ip |-> i, ua |-> u]) : i \in Ips, u \in Agents}

\* generateShortId as it would be with a generator that always returns the
\* same identifier.
generateShortIdConstant == {chars[1]}

\* One draw of generateShortId: any identifier of the identifier space.
generateShortId == {chars[i] : i \in 1..Len(chars)}

\* Array.prototype.includes
includes(likes, v) == \E i \in 1..Len(likes) : likes[i] = v

\* The filter of the unlike with a test that keeps every identity.
FilterOutKeepsAll(likes, v) == likes

\* likes.filter(id => id !== visitorId)
FilterOut(likes, v) ==
  LET Keep(x) == x # v IN SelectSeq(likes, Keep)

\* clipboards.findIndex(item => item.id === id), 1-based; 0 stands for -1.
findIndex(clipboards, id) ==
  IF \E i \in 1..Len(clipboards) : clipboards[i].id = id
  THEN CHOOSE i \in 1..Len(clipboards) :
         /\ clipboards[i].id = id
         /\ \A j \in 1..(i - 1) : clipboards[j].id # id
  ELSE 0

\* The retention test as it would be with <=: a record of exactly thirty
\* days is kept.
LiveInclusive(item, t) == (t - item.createdAt) <= THIRTY_DAYS_MS

\* cleanExpiredItems with Date.now() = t.  createdAt is written by
\* toISOString and read back by new Date(..).getTime(): both keep the
\* millisecond, so the value read is the value written.
Live(item, t) == (t - item.createdAt) < THIRTY_DAYS_MS

cleanExpiredItems(clipboards, t) ==
  LET Keep(item) == Live(item, t) IN SelectSeq(clipboards, Keep)

\* ---------------------------------------------------------------- responses
NoResp ==
  [status |-> 0, items |-> <<>>, hasLiked |-> FALSE, likesCount |-> 0,
   allow |-> <<>>]

Status(code) == [NoResp EXCEPT !.status = code]

\* { ...item, hasLiked, editable } of the responses
Enriched(item, liked, edit) ==
  [id |-> item.id, text |-> item.text, createdAt |-> item.createdAt,
   updatedAt |-> item.updatedAt, likes |-> item.likes,
   likesCount |-> item.likesCount, creatorId |-> item.creatorId,
   editable |-> edit, hasLiked |-> liked]

\* ----------------------------------------------------------------- requests
NoReq ==
  [endpoint |-> "none", method |-> "NONE", ip |-> "ip1", ua |-> "ua",
   id |-> "", text |-> Undefined, editable |-> "undefined", action |-> "other"]

Req(e, m, i, u) == [NoReq EXCEPT !.endpoint = e, !.method = m, !.ip = i, !.ua = u]

\* The requests of one client (ip, user agent) at the collection endpoint.
\* HEAD stands for the methods the switch has no case for.
ClientRequests(i, u) ==
  {Req("collection", "GET", i, u), Req("collection", "HEAD", i, u)}
  \cup {[Req("collection", "POST", i, u) EXCEPT !.text = t] : t \in PostTexts}
  \cup {[Req("collection", "POST", i, u) EXCEPT !.text = ValidPostText,
                                                !.editable = e] :
          e \in EditableInputs}
  \cup {[Req("collection", "PUT", i, u) EXCEPT !.id = d, !.text = t] :
          d \in IdInputs \ {""}, t \in PutTexts}
  \cup {[Req("collection", "PUT", i, u) EXCEPT !.text = ValidPutText]}
  \cup {[Req("collection", "PATCH", i, u) EXCEPT !.id = d, !.action = "like"] :
          d \in IdInputs}
  \cup {[Req("collection", "PATCH", i, u) EXCEPT !.id = "a", !.action = "other"]}
  \cup {[Req("collection", "DELETE", i, u) EXCEPT !.id = d] : d \in IdInputs}

CollectionRequests == UNION {ClientRequests(i, u) : i \in Ips, u \in Agents}

\* The requests at the single-record endpoint; POST stands for the methods
\* other than GET.
ItemRequests ==
  {[Req("item", "POST", "ip1", "ua") EXCEPT !.id = "a"]}
  \cup UNION {{[Req("item", "GET", i, u) EXCEPT !.id = d] : d \in IdInputs \ {""}}
              : i \in Ips, u \in Agents}

\* ------------------------------------------- the persisted records, observed
\* What a client of the store can say of a persisted collection, written
\* apart from the handlers' own code.
Expired(item, t) == t - item.createdAt >= THIRTY_DAYS_MS

Indices(data) == 1..Len(data)

\* The positions of the records of data that are live at t and have the id.
LiveWithId(data, id, t) ==
  {i \in Indices(data) : data[i].id = id /\ ~Expired(data[i], t)}

Min(S) == CHOOSE x \in S : \A y \in S : x <= y

Member(likes, v) == v \in {likes[j] : j \in 1..Len(likes)}

NoBefore == [known |-> FALSE, hasLiked |-> FALSE, likesCount |-> 0]

\* hasLiked of visitor v and likesCount of the first live record with the id.
Before(data, r, v, t) ==
  IF r.method = "PATCH" /\ LiveWithId(data, r.id, t) # {}
  THEN LET item == data[Min(LiveWithId(data, r.id, t))]
       IN [known |-> TRUE, hasLiked |-> Member(item.likes, v),
           likesCount |-> item.likesCount]
  ELSE NoBefore

\* -------------------------------------------------------------------- state
VARIABLES
  file,        \* data/clipboard.json: [exists, data]
  now,         \* Date.now()
  nreq,        \* requests received so far
  pc,          \* per request: "idle", "genId", "write", "done"
  req,         \* per request: the request being served (kept after it is done)
  clipboards,  \* per request: the handler's local `clipboards` / `filteredData`
  newId,       \* per request: the local `id` of the POST handler's do-while
  resp,        \* per request: the response (prepared at "write", sent at "done")
  readErr,     \* per request: how the read ended: "none", "ENOENT", "EIO"
  before       \* per request (history): hasLiked and likesCount of the
               \* record a PATCH names, as persisted when the request read

vars ==
  <<file, now, nreq, pc, req, clipboards, newId, resp, readErr, before>>

\* ------------------------------------------------------------------ file I/O
\* readClipboardData of clipboard.js: ENOENT gives [], any other failure is
\* thrown again.  fault: the read or the parse fails for another reason.
readClipboardData(f, fault) ==
  IF fault THEN [threw |-> TRUE, err |-> "EIO", value |-> <<>>]
  ELSE IF ~f.exists THEN [threw |-> FALSE, err |-> "ENOENT", value |-> <<>>]
  ELSE [threw |-> FALSE, err |-> "none", value |-> f.data]

\* readClipboardData of clipboard/[id].js: every failure gives [].
readClipboardDataItem(f, fault) ==
  IF fault THEN [threw |-> FALSE, err |-> "EIO", value |-> <<>>]
  ELSE IF ~f.exists THEN [threw |-> FALSE, err |-> "ENOENT", value |-> <<>>]
  ELSE [threw |-> FALSE, err |-> "none", value |-> f.data]

\* writeClipboardData as it would be if it kept the records of the file
\* that the data given does not have.
writeClipboardDataMerge(f, data, fault) ==
  LET Missing(item) == \A i \in 1..Len(data) : data[i].id # item.id
  IN IF fault THEN [threw |-> TRUE, file |-> f]
     ELSE [threw |-> FALSE,
           file |-> [exists |-> TRUE,
                     data |-> data \o SelectSeq(f.data, Missing)]]

\* writeClipboardData: the whole file is replaced by the data given, with no
\* look at what the file holds; a failure is thrown as 'Failed to write data'.
writeClipboardData(f, data, fault) ==
  IF fault THEN [threw |-> TRUE, file |-> f]
  ELSE [threw |-> FALSE, file |-> [exists |-> TRUE, data |-> data]]

\* ------------------------------------------------- the collection handler
\* The test of the do-while as if no identifier were ever taken.
someNever(cl, id) == FALSE

\* clipboards.some(item => item.id === id)
some(cl, id) == \E i \in 1..Len(cl) : cl[i].id = id

\* case 'GET' as it would be if it saved what the filter kept.
GetCaseSaves(cl, v) ==
  [next |-> "write", clipboards |-> cl,
   resp |-> [Status(200) EXCEPT !.items =
               [i \in 1..Len(cl) |->
                  Enriched(cl[i], includes(cl[i].likes, v),
                           cl[i].creatorId = v \/ cl[i].editable = TRUE)]]]

\* case 'GET' as it would be with the stored flag as editable.
GetCaseStoredFlag(cl, v) ==
  [next |-> "done", clipboards |-> <<>>,
   resp |-> [Status(200) EXCEPT !.items =
               [i \in 1..Len(cl) |->
                  Enriched(cl[i], includes(cl[i].likes, v),
                           cl[i].editable = TRUE)]]]

\* case 'GET': every item with hasLiked and editable for the visitor.
GetCase(cl, v) ==
  [next |-> "done", clipboards |-> <<>>,
   resp |-> [Status(200) EXCEPT !.items =
               [i \in 1..Len(cl) |->
                  Enriched(cl[i], includes(cl[i].likes, v),
                           cl[i].creatorId = v \/ cl[i].editable = TRUE)]]]

\* case 'POST', up to the do-while: 400, or on to the draw of the id.
PostCase(cl, r) ==
  IF InvalidText(r.text)
  THEN [next |-> "done", clipboards |-> <<>>, resp |-> Status(400)]
  ELSE [next |-> "genId", clipboards |-> cl, resp |-> NoResp]

\* const { text, editable = false } = req.body;  editable: editable === true
StoredEditable(e) == e = "true"

\* newItem of case 'POST'
NewItem(id, r, v, t) ==
  [id |-> id, text |-> trim(r.text.val), createdAt |-> t, updatedAt |-> <<>>,
   likes |-> <<>>, likesCount |-> 0, creatorId |-> v,
   editable |-> StoredEditable(r.editable)]

\* case 'POST' as it would be with push in place of unshift.
PostBuildPush(cl, id, r, v, t) ==
  [next |-> "write", clipboards |-> cl \o <<NewItem(id, r, v, t)>>,
   resp |-> [Status(201) EXCEPT
               !.items = <<Enriched(NewItem(id, r, v, t), FALSE, TRUE)>>]]

\* case 'POST' after the do-while: unshift, and the 201 response.
PostBuild(cl, id, r, v, t) ==
  [next |-> "write", clipboards |-> <<NewItem(id, r, v, t)>> \o cl,
   resp |-> [Status(201) EXCEPT
               !.items = <<Enriched(NewItem(id, r, v, t), FALSE, TRUE)>>]]

\* canEdit without the test of the creator and of the flag.
canEditAnyone(item, v) == TRUE

\* canEdit of case 'PUT'
canEdit(item, v) == item.creatorId = v \/ item.editable = TRUE

\* case 'PUT' as it would be with the lookup of the id before the test of
\* the text.
PutCaseLookupFirst(cl, r, v, t) ==
  LET itemIndex == findIndex(cl, r.id)
      updated == [cl[itemIndex] EXCEPT !.text = trim(r.text.val),
                                       !.updatedAt = <<t>>]
  IN IF itemIndex = 0
     THEN [next |-> "done", clipboards |-> <<>>, resp |-> Status(404)]
     ELSE IF InvalidText(r.text)
     THEN [next |-> "done", clipboards |-> <<>>, resp |-> Status(400)]
     ELSE IF ~canEdit(cl[itemIndex], v)
     THEN [next |-> "done", clipboards |-> <<>>, resp |-> Status(403)]
     ELSE [next |-> "write",
           clipboards |-> [cl EXCEPT ![itemIndex] = updated],
           resp |-> [Status(200) EXCEPT !.items =
                       <<Enriched(updated, includes(updated.likes, v), TRUE)>>]]

\* case 'PUT' as it would be if the update stamped createdAt as well.
PutCaseStampsCreatedAt(cl, r, v, t) ==
  LET itemIndex == findIndex(cl, r.id)
      updated == [cl[itemIndex] EXCEPT !.text = trim(r.text.val),
                                       !.createdAt = t,
                                       !.updatedAt = <<t>>]
  IN IF r.id = "" \/ InvalidText(r.text)
     THEN [next |-> "done", clipboards |-> <<>>, resp |-> Status(400)]
     ELSE IF itemIndex = 0
     THEN [next |-> "done", clipboards |-> <<>>, resp |-> Status(404)]
     ELSE IF ~canEdit(cl[itemIndex], v)
     THEN [next |-> "done", clipboards |-> <<>>, resp |-> Status(403)]
     ELSE [next |-> "write",
           clipboards |-> [cl EXCEPT ![itemIndex] = updated],
           resp |-> [Status(200) EXCEPT !.items =
                       <<Enriched(updated, includes(updated.likes, v), TRUE)>>]]

\* case 'PUT'
PutCase(cl, r, v, t) ==
  LET itemIndex == findIndex(cl, r.id)
      updated == [cl[itemIndex] EXCEPT !.text = trim(r.text.val),
                                       !.updatedAt = <<t>>]
  IN IF r.id = "" \/ InvalidText(r.text)
     THEN [next |-> "done", clipboards |-> <<>>, resp |-> Status(400)]
     ELSE IF itemIndex = 0
     THEN [next |-> "done", clipboards |-> <<>>, resp |-> Status(404)]
     ELSE IF ~canEdit(cl[itemIndex], v)
     THEN [next |-> "done", clipboards |-> <<>>, resp |-> Status(403)]
     ELSE [next |-> "write",
           clipboards |-> [cl EXCEPT ![itemIndex] = updated],
           resp |-> [Status(200) EXCEPT !.items =
                       <<Enriched(updated, includes(updated.likes, v), TRUE)>>]]

\* The toggle without the test of likes.includes(visitorId).
ToggledLikesNoCheck(likes, v) == likes \o <<v>>

\* The likes of case 'PATCH' after the toggle.
ToggledLikes(likes, v) ==
  IF includes(likes, v) THEN FilterOut(likes, v) ELSE likes \o <<v>>

\* clipboards[itemIndex].likesCount = clipboards[itemIndex].likes.length
CountLikes(likes) == Len(likes)

\* case 'PATCH' as it would be with the authorization of case 'PUT'.
PatchCaseAuthorized(cl, r, v) ==
  LET itemIndex == findIndex(cl, r.id)
      likes == cl[itemIndex].likes
      hasLiked == includes(likes, v)
      toggled == [cl[itemIndex] EXCEPT
                    !.likes = ToggledLikes(likes, v),
                    !.likesCount = CountLikes(ToggledLikes(likes, v))]
  IN IF r.id = "" \/ r.action # "like"
     THEN [next |-> "done", clipboards |-> <<>>, resp |-> Status(400)]
     ELSE IF itemIndex = 0
     THEN [next |-> "done", clipboards |-> <<>>, resp |-> Status(404)]
     ELSE IF ~canEdit(cl[itemIndex], v)
     THEN [next |-> "done", clipboards |-> <<>>, resp |-> Status(403)]
     ELSE [next |-> "write",
           clipboards |-> [cl EXCEPT ![itemIndex] = toggled],
           resp |-> [Status(200) EXCEPT !.hasLiked = ~hasLiked,
                                        !.likesCount = toggled.likesCount]]

\* case 'PATCH' as it would be if the 404 saved the filtered collection.
PatchCaseSavesOn404(cl, r, v) ==
  LET itemIndex == findIndex(cl, r.id)
      likes == cl[itemIndex].likes
      hasLiked == includes(likes, v)
      toggled == [cl[itemIndex] EXCEPT
                    !.likes = ToggledLikes(likes, v),
                    !.likesCount = CountLikes(ToggledLikes(likes, v))]
  IN IF r.id = "" \/ r.action # "like"
     THEN [next |-> "done", clipboards |-> <<>>, resp |-> Status(400)]
     ELSE IF itemIndex = 0
     THEN [next |-> "write", clipboards |-> cl, resp |-> Status(404)]
     ELSE [next |-> "write",
           clipboards |-> [cl EXCEPT ![itemIndex] = toggled],
           resp |-> [Status(200) EXCEPT !.hasLiked = ~hasLiked,
                                        !.likesCount = toggled.likesCount]]

\* case 'PATCH'
PatchCase(cl, r, v) ==
  LET itemIndex == findIndex(cl, r.id)
      likes == cl[itemIndex].likes
      hasLiked == includes(likes, v)
      toggled == [cl[itemIndex] EXCEPT
                    !.likes = ToggledLikes(likes, v),
                    !.likesCount = CountLikes(ToggledLikes(likes, v))]
  IN IF r.id = "" \/ r.action # "like"
     THEN [next |-> "done", clipboards |-> <<>>, resp |-> Status(400)]
     ELSE IF itemIndex = 0
     THEN [next |-> "done", clipboards |-> <<>>, resp |-> Status(404)]
     ELSE [next |-> "write",
           clipboards |-> [cl EXCEPT ![itemIndex] = toggled],
           resp |-> [Status(200) EXCEPT !.hasLiked = ~hasLiked,
                                        !.likesCount = toggled.likesCount]]

\* case 'DELETE' as it would be with a 404 for an id no item has.
DeleteCaseNotFound(cl, r) ==
  LET Keep(item) == item.id # r.id
  IN IF findIndex(cl, r.id) = 0
     THEN [next |-> "done", clipboards |-> <<>>, resp |-> Status(404)]
     ELSE [next |-> "write", clipboards |-> SelectSeq(cl, Keep),
           resp |-> Status(200)]

\* case 'DELETE': filteredData, written whatever it holds.
DeleteCase(cl, r) ==
  LET Keep(item) == item.id # r.id
  IN [next |-> "write", clipboards |-> SelectSeq(cl, Keep),
      resp |-> Status(200)]

\* default: 405 with the Allow header.
DefaultCase ==
  [next |-> "done", clipboards |-> <<>>,
   resp |-> [Status(405) EXCEPT
               !.allow = <<"GET", "POST", "PUT", "DELETE", "PATCH">>]]

\* switch (req.method)
Switch(cl, r, v, t) ==
  CASE r.method = "GET" -> GetCase(cl, v)
    [] r.method = "POST" -> PostCase(cl, r)
    [] r.method = "PUT" -> PutCase(cl, r, v, t)
    [] r.method = "PATCH" -> PatchCase(cl, r, v)
    [] r.method = "DELETE" -> DeleteCase(cl, r)
    [] OTHER -> DefaultCase

\* The do-while of case 'POST' runs with no await: while a request is in
\* it, nothing else of the server runs.
NoneInLoop == \A q \in Procs : pc[q] # "genId"

\* The slot p is free, and so is no slot below it.
Free(p) ==
  /\ pc[p] \in {"idle", "done"}
  /\ \A q \in Procs : q < p => pc[q] \notin {"idle", "done"}

\* f with the slots of the answered requests set back to d.
Release(f, d) == [q \in Procs |-> IF pc[q] = "done" THEN d ELSE f[q]]

\* A request at the collection endpoint, from its arrival to its first
\* await after the read (or to its response): readClipboardData,
\* cleanExpiredItems, getVisitorId and the switch.  A failed read goes to the
\* catch of the handler.
Handler(p) ==
  /\ NoneInLoop
  /\ Free(p)
  /\ nreq < MaxRequests
  /\ \E r \in CollectionRequests, fault \in BOOLEAN :
       LET rd == readClipboardData(file, fault)
           out == IF rd.threw
                  THEN [next |-> "done", clipboards |-> <<>>,
                        resp |-> Status(500)]
                  ELSE Switch(cleanExpiredItems(rd.value, now), r,
                              getVisitorId(r), now)
       IN /\ req' = [Release(req, NoReq) EXCEPT ![p] = r]
          /\ readErr' = [Release(readErr, "none") EXCEPT ![p] = rd.err]
          /\ clipboards' = [clipboards EXCEPT ![p] = out.clipboards]
          /\ pc' = [Release(pc, "idle") EXCEPT ![p] = out.next]
          /\ resp' = [Release(resp, NoResp) EXCEPT ![p] = out.resp]
          /\ before' = [Release(before, NoBefore) EXCEPT
                          ![p] = Before(rd.value, r, getVisitorId(r), now)]
  /\ nreq' = nreq + 1
  /\ UNCHANGED <<file, now, newId>>

\* One turn of the do-while: a draw, and the test of the draw against the
\* items of the request's own copy.
HandlerDrawId(p) ==
  /\ pc[p] = "genId"
  /\ \E id \in generateShortId :
       /\ newId' = [newId EXCEPT ![p] = id]
       /\ IF some(clipboards[p], id)
          THEN UNCHANGED <<pc, clipboards, resp>>
          ELSE LET out == PostBuild(clipboards[p], id, req[p],
                                    getVisitorId(req[p]), now)
               IN /\ pc' = [pc EXCEPT ![p] = out.next]
                  /\ clipboards' = [clipboards EXCEPT ![p] = out.clipboards]
                  /\ resp' = [resp EXCEPT ![p] = out.resp]
  /\ UNCHANGED <<file, now, nreq, req, readErr, before>>

\* await writeClipboardData(..), then the response; a failed write goes to
\* the catch of the handler.
HandlerWrite(p) ==
  /\ NoneInLoop
  /\ pc[p] = "write"
  /\ \E fault \in BOOLEAN :
       LET w == writeClipboardData(file, clipboards[p], fault)
       IN /\ file' = w.file
          /\ resp' = [resp EXCEPT ![p] = IF w.threw THEN Status(500) ELSE @]
  /\ pc' = [pc EXCEPT ![p] = "done"]
  /\ clipboards' = [clipboards EXCEPT ![p] = <<>>]
  /\ newId' = [newId EXCEPT ![p] = ""]
  /\ UNCHANGED <<now, nreq, req, readErr, before>>

\* ------------------------------------------------ the single-record handler
\* clipboards.find(item => item.id === id), and the response.
ItemCase(cl, r, v) ==
  LET itemIndex == findIndex(cl, r.id)
  IN IF itemIndex = 0 THEN Status(404)
     ELSE [Status(200) EXCEPT !.items =
             <<Enriched(cl[itemIndex], includes(cl[itemIndex].likes, v),
                        cl[itemIndex].editable)>>]

ItemHandler(p) ==
  /\ NoneInLoop
  /\ Free(p)
  /\ nreq < MaxRequests
  /\ \E r \in ItemRequests, fault \in BOOLEAN :
       LET rd == readClipboardDataItem(file, fault)
       IN /\ req' = [Release(req, NoReq) EXCEPT ![p] = r]
          /\ IF r.method # "GET"
             THEN /\ fault = FALSE
                  /\ resp' = [Release(resp, NoResp) EXCEPT ![p] = Status(405)]
                  /\ readErr' = [Release(readErr, "none") EXCEPT ![p] = "none"]
             ELSE /\ resp' = [Release(resp, NoResp) EXCEPT
                                ![p] = ItemCase(rd.value, r, getVisitorId(r))]
                  /\ readErr' = [Release(readErr, "none") EXCEPT ![p] = rd.err]
  /\ pc' = [Release(pc, "idle") EXCEPT ![p] = "done"]
  /\ before' = Release(before, NoBefore)
  /\ nreq' = nreq + 1
  /\ UNCHANGED <<file, now, clipboards, newId>>

\* --------------------------------------------------------------- the clock
Tick ==
  /\ NoneInLoop
  /\ now < (MaxTicks + 1) * TickMs
  /\ now' = now + TickMs
  /\ UNCHANGED <<file, nreq, pc, req, clipboards, newId, resp, readErr, before>>

\* ------------------------------------------------------------ initial states
\* The file before its first write, or as one Create by ip1 left it: the
\* record was created at time 0, and the clock now reads 15 days.
InitialFiles ==
  {[exists |-> FALSE, data |-> <<>>],
   [exists |-> TRUE,
    data |-> <<NewItem("a", [Req("collection", "POST", "ip1", "ua") EXCEPT
                               !.text = ValidPostText],
                       getVisitorId([ip |-> "ip1", ua |-> "ua"]), 0)>>]}

Init ==
  /\ file \in InitialFiles
  /\ now = TickMs
  /\ nreq = 0
  /\ pc = [p \in Procs |-> "idle"]
  /\ req = [p \in Procs |-> NoReq]
  /\ clipboards = [p \in Procs |-> <<>>]
  /\ newId = [p \in Procs |-> ""]
  /\ resp = [p \in Procs |-> NoResp]
  /\ readErr = [p \in Procs |-> "none"]
  /\ before = [p \in Procs |-> NoBefore]

Next ==
  \/ \E p \in Procs : Handler(p)
  \/ \E p \in Procs : HandlerDrawId(p)
  \/ \E p \in Procs : HandlerWrite(p)
  \/ \E p \in Procs : ItemHandler(p)
  \/ Tick

Spec == Init /\ [][Next]_vars

\* The draw that ends the do-while of case 'POST': an id no item of the
\* copy has.
HandlerDrawFreeId(p) == HandlerDrawId(p) /\ pc'[p] = "write"

\* Math.random draws every identifier again and again, so a loop that can
\* end on some identifier does end; and the runtime completes every awaited
\* write once no synchronous loop holds the event loop.
FairSpec ==
  Spec /\ \A p \in Procs :
            WF_vars(HandlerDrawFreeId(p)) /\ WF_vars(HandlerWrite(p))

\* =================================================================== claims
\* The request that arrives in this step takes slot p.
Arrives(p) == nreq' = nreq + 1 /\ Free(p)

\* The request in slot p arrives at the collection endpoint with method m,
\* and the read of the file does not fail.
ArrivesWith(p, m) ==
  /\ Arrives(p)
  /\ req'[p].endpoint = "collection"
  /\ req'[p].method = m
  /\ readErr'[p] # "EIO"

\* The request in slot p writes the file in this step and the write does
\* not fail.
Writes(p) == pc[p] = "write" /\ pc'[p] = "done" /\ resp'[p].status # 500

\* The records of data that are live at t, in their order.
LiveRecords(data, t) ==
  LET Keep(item) == ~Expired(item, t) IN SelectSeq(data, Keep)

\* ----------------------------------------------------------------------- C1
\* C1: in every persisted state, whatever requests were served and however
\* they overlapped, the likes of every record hold no identity twice and
\* likesCount is the number of identities in likes.
C1_LikesCountIsSizeOfLikes ==
  \A i \in Indices(file.data) :
    /\ file.data[i].likesCount = Len(file.data[i].likes)
    /\ file.data[i].likesCount =
         Cardinality({file.data[i].likes[j] : j \in 1..Len(file.data[i].likes)})

\* Two identities like one persisted record.
C1_TwoLikesPersisted ==
  \E i \in Indices(file.data) : file.data[i].likesCount = 2

\* ----------------------------------------------------------------------- C2
\* C2: an Update with valid text of a live record is answered 403 when the
\* record's editable flag is false and the requester is not its creator; it
\* passes the authorization (the updated record goes to the write, with the
\* 200 response) for the creator, and for every requester when the flag is
\* true.
C2_UpdateAuthorization ==
  [][\A p \in Procs :
       (/\ ArrivesWith(p, "PUT")
        /\ ~InvalidText(req'[p].text)
        /\ LiveWithId(file.data, req'[p].id, now) # {})
       =>
       LET item == file.data[Min(LiveWithId(file.data, req'[p].id, now))]
           v == getVisitorId(req'[p])
       IN IF item.editable = FALSE /\ v # item.creatorId
          THEN pc'[p] = "done" /\ resp'[p].status = 403 /\ file' = file
          ELSE /\ pc'[p] = "write"
               /\ resp'[p].status = 200
               /\ resp'[p].items[1].text = trim(req'[p].text.val)]_vars

\* An Update was refused with 403, and the record is still persisted
\* with the text it was created with.
C2_ForbiddenAnswered ==
  \E p \in Procs :
    /\ pc[p] = "done"
    /\ req[p].method = "PUT"
    /\ resp[p].status = 403
    /\ \E i \in Indices(file.data) :
         /\ file.data[i].id = req[p].id
         /\ file.data[i].editable = FALSE
         /\ file.data[i].creatorId # getVisitorId(req[p])

\* ----------------------------------------------------------------------- C3
\* C3: no record whose createdAt is 30 days or more before the request is in
\* the result of List(), and Get(id) never returns one.
C3_ExpiredNeverReturned ==
  [][\A p \in Procs :
       (Arrives(p) /\ req'[p].method = "GET" /\ resp'[p].status = 200)
       => \A i \in 1..Len(resp'[p].items) : ~Expired(resp'[p].items[i], now)]_vars

\* ----------------------------------------------------------------------- C4
\* C4 as claimed: once a List() or a Get(id) has completed, the persisted
\* store holds no expired record.
C4_ReadCommitsPruning ==
  [][\A p \in Procs :
       (Arrives(p) /\ req'[p].method = "GET" /\ readErr'[p] # "EIO")
       => \A i \in Indices(file'.data) : ~Expired(file'.data[i], now)]_vars

\* C4 as amended: a read never writes.  List() and Get(id) respond in the
\* step that reads and leave the file as it is, expired records included;
\* the file changes only in the write of a POST, PUT, PATCH or DELETE.
C4_ReadsNeverWrite ==
  [][/\ \A p \in Procs :
          (Arrives(p) /\ req'[p].method = "GET")
          => pc'[p] = "done" /\ file' = file
     /\ file' # file
          => \E p \in Procs :
               /\ pc[p] = "write"
               /\ req[p].method \in {"POST", "PUT", "PATCH", "DELETE"}]_vars

\* A List() was the last request, nothing else is in flight, it returned no
\* record, and the file still holds a record, which is expired.
C4_ExpiredStillPersistedAfterList ==
  /\ pc[1] = "done"
  /\ \A q \in Procs \ {1} : pc[q] = "idle"
  /\ req[1].endpoint = "collection"
  /\ req[1].method = "GET"
  /\ resp[1].status = 200
  /\ resp[1].items = <<>>
  /\ file.data # <<>>
  /\ \A i \in Indices(file.data) : Expired(file.data[i], now)

\* ----------------------------------------------------------------------- C5
\* C5: a write takes no look at the file: whenever a request's write
\* succeeds, the file holds exactly that request's own copy afterwards,
\* whatever another request has saved since the copy was read.
C5_WriteReplacesWholeFile ==
  [][\A p \in Procs :
       Writes(p) => file' = [exists |-> TRUE, data |-> clipboards[p]]]_vars

\* The lost update: two ToggleLike requests on one record by two identities
\* were in flight together, each was answered hasLiked = true and
\* likesCount = 1, and the persisted record holds one like only.
C5_LostUpdate ==
  /\ \A p \in Procs :
       /\ pc[p] = "done"
       /\ req[p].method = "PATCH"
       /\ resp[p].status = 200
       /\ resp[p].hasLiked = TRUE
       /\ resp[p].likesCount = 1
  /\ req[1].id = req[2].id
  /\ getVisitorId(req[1]) # getVisitorId(req[2])
  /\ \E i \in Indices(file.data) :
       /\ file.data[i].id = req[1].id
       /\ Len(file.data[i].likes) = 1

\* ----------------------------------------------------------------------- C6
\* C6: no two persisted records have the same id, and the id of the record
\* a Create is about to save differs from the id of every record of the
\* live collection the Create read.
C6_IdsAreUnique ==
  /\ \A i, j \in Indices(file.data) :
       i # j => file.data[i].id # file.data[j].id
  /\ \A p \in Procs :
       (pc[p] = "write" /\ req[p].method = "POST")
       => \A j \in 2..Len(clipboards[p]) :
            clipboards[p][j].id # clipboards[p][1].id

\* Two overlapping Create requests were both answered 201 with the same id.
C6_OverlappingCreatesSameId ==
  /\ \A p \in Procs :
       pc[p] = "done" /\ req[p].method = "POST" /\ resp[p].status = 201
  /\ resp[1].items[1].id = resp[2].items[1].id

\* ----------------------------------------------------------------------- C7
\* C7: when a ToggleLike of a record by an identity was answered 200 and
\* the next request, with no other request in flight or answered in
\* between, is the same ToggleLike and the record is still live, then the
\* second response reports the hasLiked and the likesCount the record had
\* before the first toggle, and so does the record the second toggle saves.
C7_ToggleTwiceRestores ==
  [][(/\ pc[1] = "done"
      /\ \A q \in Procs \ {1} : pc[q] = "idle"
      /\ req[1].method = "PATCH"
      /\ resp[1].status = 200
      /\ before[1].known
      /\ ArrivesWith(1, "PATCH")
      /\ req'[1] = req[1]
      /\ LiveWithId(file.data, req[1].id, now) # {})
     =>
     LET saved == clipboards'[1][Min(LiveWithId(clipboards'[1], req[1].id, now))]
     IN /\ pc'[1] = "write"
        /\ resp'[1].status = 200
        /\ resp'[1].hasLiked = before[1].hasLiked
        /\ resp'[1].likesCount = before[1].likesCount
        /\ saved.likesCount = before[1].likesCount
        /\ Member(saved.likes, getVisitorId(req[1])) = before[1].hasLiked]_vars

\* Two requests were served, a ToggleLike and the same ToggleLike again: the
\* first had made the record liked, the second reports it not liked.
C7_SecondToggleAnswered ==
  /\ nreq = 2
  /\ pc[1] = "done"
  /\ \A q \in Procs \ {1} : pc[q] = "idle"
  /\ req[1].method = "PATCH"
  /\ resp[1].status = 200
  /\ before[1].known
  /\ before[1].hasLiked = TRUE
  /\ before[1].likesCount = 1
  /\ resp[1].hasLiked = FALSE
  /\ resp[1].likesCount = 0

\* ----------------------------------------------------------------------- C8
\* C8: a Create whose text is missing, empty or only white space is
\* answered 400 (the file being readable) and writes nothing: it responds in
\* the step that reads, and the file is what it was.
C8_BlankCreateRejected ==
  [][\A p \in Procs :
       (/\ ArrivesWith(p, "POST")
        /\ \/ req'[p].text.type # "string"
           \/ \A k \in 1..Len(req'[p].text.val) : req'[p].text.val[k] = " ")
       => /\ pc'[p] = "done"
          /\ resp'[p].status = 400
          /\ file' = file]_vars

\* A Create with a text of white space only was answered 400 while the
\* file holds a record.
C8_BlankCreateAnswered ==
  \E p \in Procs :
    /\ pc[p] = "done"
    /\ req[p].method = "POST"
    /\ req[p].text = Str(<<" ">>)
    /\ resp[p].status = 400
    /\ file.data # <<>>

\* ----------------------------------------------------------------------- C9
\* C9: for every operation, a failure to read or parse the file other than
\* the file not existing is answered 500, never 404 and never as an empty
\* store.
C9_ReadFailureIsInternalError ==
  \A p \in Procs :
    (pc[p] = "done" /\ readErr[p] = "EIO") => resp[p].status = 500

\* ---------------------------------------------------------------------- C10
\* C10: a Delete is answered 200 by whoever sends it and whether or not a
\* record has the id; what it saves is the collection that was live when it
\* read, in order, without the records of that id; once saved, the file has
\* no record of that id, and a Get of an id no persisted record has is
\* answered 404.
C10_DeleteRemovesAndAnswers200 ==
  [][/\ \A p \in Procs :
          ArrivesWith(p, "DELETE")
          => LET Keep(item) == item.id # req'[p].id
             IN /\ pc'[p] = "write"
                /\ resp'[p].status = 200
                /\ clipboards'[p] =
                     SelectSeq(LiveRecords(file.data, now), Keep)
     /\ \A p \in Procs :
          (Writes(p) /\ req[p].method = "DELETE")
          => /\ resp'[p].status = 200
             /\ file'.data = clipboards[p]
             /\ \A i \in Indices(file'.data) : file'.data[i].id # req[p].id
     /\ \A p \in Procs :
          (/\ Arrives(p)
           /\ req'[p].endpoint = "item"
           /\ req'[p].method = "GET"
           /\ \A i \in Indices(file.data) : file.data[i].id # req'[p].id)
          => resp'[p].status = 404]_vars

\* A Delete by an identity that did not create the record is about to save
\* a collection without the record, which the file still holds.
C10_DeleteOfAnothersRecord ==
  \E p \in Procs :
    /\ pc[p] = "write"
    /\ req[p].method = "DELETE"
    /\ \A j \in Indices(clipboards[p]) : clipboards[p][j].id # req[p].id
    /\ \E i \in Indices(file.data) :
         /\ file.data[i].id = req[p].id
         /\ file.data[i].creatorId # getVisitorId(req[p])

\* ---------------------------------------------------------------------- C11
\* C11 as the specification words it: an Update whose id no live record has
\* is answered 404 for every text, blank text included; the text is only
\* looked at (400) when the id exists.
C11_NotFoundBeforeInvalidInput ==
  [][\A p \in Procs :
       (/\ ArrivesWith(p, "PUT")
        /\ LiveWithId(file.data, req'[p].id, now) = {})
       => pc'[p] = "done" /\ resp'[p].status = 404]_vars

\* C11: the order in which an Update decides its failure: 400 when the id is
\* missing or the text is missing or blank, whether or not a live record has
\* the id; 404 when the input is valid and no live record has the id; 403
\* only when a live record has the id, the text is valid and the requester
\* is not authorized; in all three cases nothing is written.
C11_InvalidInputBeforeNotFound ==
  [][\A p \in Procs :
       ArrivesWith(p, "PUT")
       =>
       LET found == LiveWithId(file.data, req'[p].id, now)
           v == getVisitorId(req'[p])
       IN IF req'[p].id = "" \/ InvalidText(req'[p].text)
          THEN pc'[p] = "done" /\ resp'[p].status = 400 /\ file' = file
          ELSE IF found = {}
          THEN pc'[p] = "done" /\ resp'[p].status = 404 /\ file' = file
          ELSE (resp'[p].status = 403)
               <=> (/\ file.data[Min(found)].editable = FALSE
                    /\ file.data[Min(found)].creatorId # v)]_vars

\* An Update with a blank text of an id that no persisted record has was
\* answered 400.
C11_BlankUpdateOfAbsentIdAnswered400 ==
  \E p \in Procs :
    /\ pc[p] = "done"
    /\ req[p].endpoint = "collection"
    /\ req[p].method = "PUT"
    /\ req[p].id # ""
    /\ req[p].text = Str(<<" ">>)
    /\ resp[p].status = 400
    /\ \A i \in Indices(file.data) : file.data[i].id # req[p].id

\* The positions of the records of data that have the id.
WithId(data, id) == {i \in Indices(data) : data[i].id = id}

\* ---------------------------------------------------------------------- C12
\* C12: a ToggleLike of a live record passes for every requester, whatever
\* the record's creatorId and editable flag: the record that goes to the
\* write holds the requester in likes exactly when the persisted record did
\* not, the other identities of likes are kept, and the 200 response carries
\* the membership and the likesCount of that record; the write persists that
\* record, so the returned hasLiked and likesCount are those of the persisted
\* record after the request. A ToggleLike of an id that no live record has
\* is answered 404.
C12_ToggleLikeForEveryRequester ==
  [][/\ \A p \in Procs :
          (/\ ArrivesWith(p, "PATCH")
           /\ req'[p].id # ""
           /\ req'[p].action = "like")
          =>
          LET found == LiveWithId(file.data, req'[p].id, now)
              v == getVisitorId(req'[p])
          IN IF found = {}
             THEN pc'[p] = "done" /\ resp'[p].status = 404
             ELSE
               LET old == file.data[Min(found)]
                   k == Min(WithId(clipboards'[p], req'[p].id))
                   new == clipboards'[p][k]
               IN /\ pc'[p] = "write"
                  /\ resp'[p].status = 200
                  /\ Member(new.likes, v) <=> ~Member(old.likes, v)
                  /\ \A u \in Visitors \ {v} :
                       Member(new.likes, u) <=> Member(old.likes, u)
                  /\ resp'[p].hasLiked = Member(new.likes, v)
                  /\ resp'[p].likesCount = new.likesCount
     /\ \A p \in Procs :
          (Writes(p) /\ req[p].method = "PATCH")
          =>
          LET k == Min(WithId(file'.data, req[p].id))
          IN /\ WithId(file'.data, req[p].id) # {}
             /\ resp'[p].status = 200
             /\ resp'[p].hasLiked =
                  Member(file'.data[k].likes, getVisitorId(req[p]))
             /\ resp'[p].likesCount = file'.data[k].likesCount]_vars

\* A ToggleLike by an identity that could not update the record (not its
\* creator, editable false) was answered 200 and the persisted record holds
\* that identity in likes.
C12_LikeByUnauthorizedRequester ==
  \E p \in Procs :
    /\ pc[p] = "done"
    /\ req[p].method = "PATCH"
    /\ resp[p].status = 200
    /\ resp[p].hasLiked = TRUE
    /\ \E i \in Indices(file.data) :
         /\ file.data[i].id = req[p].id
         /\ file.data[i].editable = FALSE
         /\ file.data[i].creatorId # getVisitorId(req[p])
         /\ Member(file.data[i].likes, getVisitorId(req[p]))

\* ---------------------------------------------------------------------- C13
\* s is text without the white space around it, and is not empty.
TrimmedOf(s, text) ==
  /\ s # <<>>
  /\ s[1] # " "
  /\ s[Len(s)] # " "
  /\ \E i \in 1..Len(text) :
       /\ i + Len(s) - 1 <= Len(text)
       /\ SubSeq(text, i, i + Len(s) - 1) = s
       /\ \A k \in 1..Len(text) :
            (k < i \/ k > i + Len(s) - 1) => text[k] = " "

\* C13: a Create with valid text works on the records that are live at the
\* request; the collection it sends to the write is the new record followed
\* by those records in their order; the new record has empty likes,
\* likesCount 0, the requester as creatorId and the trimmed, non-empty text;
\* the 201 response carries that record with hasLiked false and editable
\* true, whatever editable flag the record stores; the write persists
\* exactly that collection.
C13_CreatePrependsNewRecord ==
  [][/\ \A p \in Procs :
          (ArrivesWith(p, "POST") /\ ~InvalidText(req'[p].text))
          => /\ pc'[p] = "genId"
             /\ clipboards'[p] = LiveRecords(file.data, now)
     /\ \A p \in Procs :
          (pc[p] = "genId" /\ pc'[p] # "genId")
          =>
          LET new == clipboards'[p][1]
              out == resp'[p].items[1]
          IN /\ pc'[p] = "write"
             /\ clipboards'[p] # <<>>
             /\ Tail(clipboards'[p]) = clipboards[p]
             /\ new.likes = <<>>
             /\ new.likesCount = 0
             /\ new.creatorId = getVisitorId(req[p])
             /\ TrimmedOf(new.text, req[p].text.val)
             /\ new.editable = (req[p].editable = "true")
             /\ resp'[p].status = 201
             /\ Len(resp'[p].items) = 1
             /\ out.id = new.id
             /\ out.text = new.text
             /\ out.creatorId = new.creatorId
             /\ out.likesCount = 0
             /\ out.hasLiked = FALSE
             /\ out.editable = TRUE
     /\ \A p \in Procs :
          (Writes(p) /\ req[p].method = "POST")
          => /\ file'.data = clipboards[p]
             /\ resp'[p] = resp[p]
             /\ resp'[p].status = 201]_vars

\* A Create that stores editable false was answered 201 with editable true,
\* and its record is persisted first, before the record that was there.
C13_CreatedFirstAndReportedEditable ==
  \E p \in Procs :
    /\ pc[p] = "done"
    /\ req[p].method = "POST"
    /\ resp[p].status = 201
    /\ resp[p].items[1].editable = TRUE
    /\ Len(file.data) = 2
    /\ file.data[1].id = resp[p].items[1].id
    /\ file.data[1].editable = FALSE
    /\ file.data[1].likes = <<>>
    /\ file.data[2].id # file.data[1].id

\* ---------------------------------------------------------------------- C14
\* C14: an Update that passes validation, lookup and authorization sends to
\* the write the live records in their order, with the text and updatedAt
\* of the first record that has the id replaced and nothing else changed:
\* that record's id, createdAt, creatorId, editable, likes and likesCount
\* and every other live record are as persisted; the write persists exactly
\* that collection. No operation changes a createdAt: every record an
\* Update, ToggleLike or Delete sends to the write has the id, createdAt
\* and creatorId of a persisted record, and a Create leaves the records it
\* read as they are behind the new one.
C14_UpdateChangesTextAndUpdatedAtOnly ==
  [][/\ \A p \in Procs :
          (ArrivesWith(p, "PUT") /\ pc'[p] = "write")
          =>
          LET live == LiveRecords(file.data, now)
              k == Min(WithId(live, req'[p].id))
          IN /\ WithId(live, req'[p].id) # {}
             /\ Len(clipboards'[p]) = Len(live)
             /\ \A i \in Indices(live) : i # k => clipboards'[p][i] = live[i]
             /\ clipboards'[p][k] =
                  [live[k] EXCEPT !.text = clipboards'[p][k].text,
                                  !.updatedAt = <<now>>]
             /\ TrimmedOf(clipboards'[p][k].text, req'[p].text.val)
     /\ \A p \in Procs :
          (Writes(p) /\ req[p].method = "PUT")
          => file'.data = clipboards[p] /\ resp'[p].status = 200
     /\ \A p \in Procs :
          (Arrives(p) /\ pc'[p] \in {"write", "genId"})
          => \A j \in Indices(clipboards'[p]) :
               \E i \in Indices(file.data) :
                 /\ file.data[i].id = clipboards'[p][j].id
                 /\ file.data[i].createdAt = clipboards'[p][j].createdAt
                 /\ file.data[i].creatorId = clipboards'[p][j].creatorId
     /\ \A p \in Procs :
          (pc[p] = "genId" /\ pc'[p] = "write")
          => /\ Tail(clipboards'[p]) = clipboards[p]
             /\ clipboards'[p][1].createdAt = now]_vars

\* An Update of the second of two persisted records was answered 200: the
\* record has the new text and an updatedAt, and the first record, created
\* later, is still first.
C14_SecondRecordUpdated ==
  \E p \in Procs :
    /\ pc[p] = "done"
    /\ req[p].method = "PUT"
    /\ resp[p].status = 200
    /\ Len(file.data) = 2
    /\ file.data[2].id = req[p].id
    /\ file.data[2].text = <<"y">>
    /\ file.data[2].updatedAt = <<now>>
    /\ file.data[2].createdAt < now
    /\ file.data[1].id # req[p].id
    /\ file.data[1].updatedAt = <<>>

\* ---------------------------------------------------------------------- C15
\* C15: List() answers 200 with every live record in the stored order, each
\* with its stored id, text, createdAt, updatedAt, likes, likesCount and
\* creatorId, with hasLiked = (the requester is in likes) and editable =
\* (the requester is the creator, or the stored flag is true); the persisted
\* store, its editable flags included, is left as it was.
C15_ListEnrichesLiveRecords ==
  [][\A p \in Procs :
       ArrivesWith(p, "GET")
       =>
       LET live == LiveRecords(file.data, now)
           v == getVisitorId(req'[p])
           out == resp'[p].items
       IN /\ pc'[p] = "done"
          /\ resp'[p].status = 200
          /\ Len(out) = Len(live)
          /\ \A i \in Indices(live) :
               /\ out[i].id = live[i].id
               /\ out[i].text = live[i].text
               /\ out[i].createdAt = live[i].createdAt
               /\ out[i].updatedAt = live[i].updatedAt
               /\ out[i].likes = live[i].likes
               /\ out[i].likesCount = live[i].likesCount
               /\ out[i].creatorId = live[i].creatorId
               /\ out[i].hasLiked = Member(live[i].likes, v)
               /\ out[i].editable =
                    (v = live[i].creatorId \/ live[i].editable = TRUE)
          /\ file' = file]_vars

\* List() reported to its creator, who has liked it, a record as editable
\* whose stored flag is false, and the stored flag is still false.
C15_CreatorSeesEditable ==
  \E p \in Procs :
    /\ pc[p] = "done"
    /\ req[p].endpoint = "collection"
    /\ req[p].method = "GET"
    /\ resp[p].status = 200
    /\ Len(resp[p].items) = 1
    /\ Len(file.data) = 1
    /\ resp[p].items[1].editable = TRUE
    /\ resp[p].items[1].hasLiked = TRUE
    /\ file.data[1].editable = FALSE
    /\ file.data[1].creatorId = getVisitorId(req[p])

\* ---------------------------------------------------------------------- C16
\* The methods an endpoint supports.
Supported(endpoint) ==
  IF endpoint = "collection"
  THEN {"GET", "POST", "PUT", "DELETE", "PATCH"}
  ELSE {"GET"}

\* C16: on both endpoints, a request with a method the endpoint does not
\* support is answered 405 with an Allow header that lists the methods the
\* endpoint supports, and the persisted store is left as it was.
C16_MethodNotAllowedCarriesAllow ==
  [][\A p \in Procs :
       (/\ Arrives(p)
        /\ readErr'[p] # "EIO"
        /\ req'[p].method \notin Supported(req'[p].endpoint))
       => /\ pc'[p] = "done"
          /\ resp'[p].status = 405
          /\ {resp'[p].allow[i] : i \in 1..Len(resp'[p].allow)} =
               Supported(req'[p].endpoint)
          /\ file' = file]_vars

\* ---------------------------------------------------------------------- C17
\* C17: a request to the collection endpoint that ends in 400, 403, 404 or
\* 405 is answered in the step that handles it, without a write: the
\* persisted store, with the expired records the request left out of its
\* copy, is the same before and after; and no request that is waiting for
\* its write, or has written, carries one of these statuses.
C17_FailedRequestWritesNothing ==
  [][/\ \A p \in Procs :
          (/\ Arrives(p)
           /\ req'[p].endpoint = "collection"
           /\ resp'[p].status \in {400, 403, 404, 405})
          => pc'[p] = "done" /\ file' = file
     /\ \A p \in Procs :
          (pc'[p] \in {"genId", "write"} \/ pc[p] = "write")
          => resp'[p].status \notin {400, 403, 404, 405}]_vars

\* An Update or ToggleLike of an expired record was answered 404 and the
\* expired record is still persisted.
C17_NotFoundLeavesExpiredRecord ==
  \E p \in Procs :
    /\ pc[p] = "done"
    /\ req[p].endpoint = "collection"
    /\ req[p].method \in {"PUT", "PATCH"}
    /\ resp[p].status = 404
    /\ \E i \in Indices(file.data) :
         file.data[i].id = req[p].id /\ Expired(file.data[i], now)

\* ---------------------------------------------------------------------- C18
\* C18: the editable that Get(id) returns for a record is what List()
\* reports for that record and identity, (the requester is the creator, or
\* the stored flag is true); so Get(id) reports editable true whenever an
\* Update by the requester would pass the authorization.
C18_GetReportsEditableAsList ==
  [][\A p \in Procs :
       (/\ Arrives(p)
        /\ req'[p].endpoint = "item"
        /\ req'[p].method = "GET"
        /\ resp'[p].status = 200)
       =>
       LET item == file.data[Min(WithId(file.data, req'[p].id))]
           v == getVisitorId(req'[p])
       IN resp'[p].items[1].editable =
            (v = item.creatorId \/ item.editable = TRUE)]_vars

\* ---------------------------------------------------------------------- C19
\* C19: the collection that a Create, Update, ToggleLike or Delete sends to
\* the write, with a success response, holds no record that is expired at
\* the time the request is handled, and the write persists exactly that
\* collection, so after the write the persisted store holds no record that
\* was expired at the time of the request. An Update or ToggleLike of an id
\* that only expired records have changes nothing and is answered 404 (400
\* when its input is invalid).
C19_WritesPersistLiveRecordsOnly ==
  [][/\ \A p \in Procs :
          (/\ Arrives(p)
           /\ req'[p].endpoint = "collection"
           /\ pc'[p] \in {"genId", "write"})
          => /\ \A j \in Indices(clipboards'[p]) :
                  ~Expired(clipboards'[p][j], now)
             /\ pc'[p] = "write" => resp'[p].status \in {200, 201}
     /\ \A p \in Procs :
          (pc[p] = "genId" /\ pc'[p] = "write")
          => /\ \A j \in Indices(clipboards'[p]) :
                  ~Expired(clipboards'[p][j], now)
             /\ resp'[p].status = 201
     /\ \A p \in Procs :
          Writes(p)
          => /\ file'.exists
             /\ file'.data = clipboards[p]
             /\ resp'[p].status \in {200, 201}
     /\ \A p \in Procs :
          (/\ ArrivesWith(p, "PUT") \/ ArrivesWith(p, "PATCH")
           /\ WithId(file.data, req'[p].id) # {}
           /\ LiveWithId(file.data, req'[p].id, now) = {})
          => /\ pc'[p] = "done"
             /\ file' = file
             /\ resp'[p].status \in {400, 404}
             /\ resp'[p].status = 400
                  <=> IF req'[p].method = "PUT"
                      THEN InvalidText(req'[p].text)
                      ELSE req'[p].action # "like"]_vars

\* A request answered with success is about to write a collection that
\* leaves out a record of the file that is expired.
C19_WriteAboutToDropExpiredRecord ==
  \E p \in Procs :
    /\ pc[p] = "write"
    /\ resp[p].status \in {200, 201}
    /\ \E i \in Indices(file.data) :
         /\ Expired(file.data[i], now)
         /\ \A j \in Indices(clipboards[p]) :
              clipboards[p][j].id # file.data[i].id

\* ---------------------------------------------------------------------- C20
\* The ids of the records of data.
IdsOf(data) == {data[i].id : i \in Indices(data)}

\* The identifiers that exist.
AllIds == {chars[i] : i \in 1..Len(chars)}

\* The Create in slot p is in its id loop and some identifier is not the id
\* of a live record of its copy.
LoopCanEnd(p) == pc[p] = "genId" /\ AllIds \ IdsOf(clipboards[p]) # {}

\* The Create in slot p is in its id loop and every identifier is the id of
\* a live record of its copy.
LoopCannotEnd(p) == pc[p] = "genId" /\ AllIds \subseteq IdsOf(clipboards[p])

\* C20: under fair draws, the id loop of a Create with valid text ends
\* whenever some identifier is not the id of a live record of its copy (a
\* request in the loop stays in it, with the same copy, until the loop
\* ends, so the loop ends if and only if the request is again and again not
\* in it), and the request is then answered by its write, unless another
\* Create spins for ever in a loop that no identifier can end and holds the
\* event loop; the loop ends only with an id that no live record of the
\* copy has, which is the id of the new record; and while every identifier
\* is the id of a live record the loop never ends and the request is never
\* answered.
C20_CreateLoopTerminates ==
  /\ \A p \in Procs : []<>(~LoopCanEnd(p))
  /\ \A p \in Procs :
       []<>(pc[p] # "write" \/ \E q \in Procs : LoopCannotEnd(q))
  /\ [][\A p \in Procs :
          (pc[p] = "genId" /\ pc'[p] # "genId")
          => /\ LoopCanEnd(p)
             /\ pc'[p] = "write"
             /\ newId'[p] \notin IdsOf(clipboards[p])
             /\ clipboards'[p][1].id = newId'[p]
             /\ resp'[p].items[1].id = newId'[p]]_vars
  /\ [][\A p \in Procs :
          (pc[p] = "write" /\ pc'[p] # "write") => pc'[p] = "done"]_vars
  /\ [][\A p \in Procs :
          (pc[p] = "genId" /\ pc'[p] = "genId")
          => /\ clipboards'[p] = clipboards[p]
             /\ file' = file
             /\ resp'[p].status = 0]_vars
  /\ [][\A p \in Procs : LoopCannotEnd(p) => pc'[p] = "genId"]_vars

\* A Create drew an id that a live record has and is still in its loop,
\* with an identifier left that no live record has.
C20_CollidingDrawRepeats ==
  \E p \in Procs : LoopCanEnd(p) /\ newId[p] \in IdsOf(clipboards[p])

====
